---- MODULE Spec2Model ----
(***************************************************************************)
(* SignWave: the two-player ASL competition room.                          *)
(*                                                                         *)
(* The model covers the room REST handlers (POST /api/room, GET and PUT    *)
(* /api/room/[roomCode], POST /api/room/[roomCode]/join), the lessons page *)
(* that creates and joins rooms, and the competition page that each of the *)
(* two players runs (room poll, start, skip, give up, answer check).       *)
(*                                                                         *)
(* JavaScript strings that the code transforms (room codes, answers) are   *)
(* sequences of one-character strings; user ids, which the code only       *)
(* compares, are plain strings.  Timestamps (created_at, updated_at) and   *)
(* document ids are left out: no handler reads them.                       *)
(***************************************************************************)
EXTENDS Integers, Sequences, FiniteSets, TLC

VARIABLES
    rooms,         \* the Firestore collection 'rooms': a sequence of documents
    creating,      \* POST /api/room requests between roomCodeExists and addDoc
    joining,       \* POST .../join requests between the read and the updateDoc
    last,          \* the most recent answer of the create and join handlers
    history,       \* every version of the room the clients play in, oldest first
    room,          \* per client: the React state `room` (the version it holds)
    justAnswered,  \* per client: the React state `justAnswered`
    isHost,        \* per client: the React state `isHost`
    puts,          \* per client: PUT /api/room/[roomCode] requests in flight
    compared,      \* what a specification follows besides: an answer comparison,
                   \* a response of the classifier, the detections in flight
    error,         \* per client: the React state `error`
    mounted        \* per client: the room view is open (the component is mounted)

storeVars == <<rooms, creating, joining, last>>
pageVars == <<history, room, justAnswered, isHost, puts>>
viewVars == <<error, mounted>>
vars == <<rooms, creating, joining, last, history, room, justAnswered, isHost, puts, compared,
          error, mounted>>

-----------------------------------------------------------------------------
(* Bounds of the model *)

MaxGoal == 2    \* goal scores a host picks in the game: 1..MaxGoal
MaxPick == 1    \* the generators draw from the first MaxPick problems of their pool
MaxStartPick == 2    \* startGame draws from the first MaxStartPick problems of the pool
MaxDetections == 2   \* detection requests of one page in flight together
MaxPuts == 1    \* PUT requests in flight per client
MaxWrites == 4  \* PUT requests of one run, by both clients together
MaxRooms == 2   \* rooms in the store, with the create requests in flight

-----------------------------------------------------------------------------
(* JavaScript values *)

Str(s) == [ty |-> "string", s |-> s, n |-> 0]
Num(n) == [ty |-> "number", s |-> <<>>, n |-> n]

Min(a, b) == IF a < b THEN a ELSE b

\* 'ABCDEFGHIJKLMNOPQRSTUVWXYZ'.split('')
ALPHABET == << "A","B","C","D","E","F","G","H","I","J","K","L","M",
               "N","O","P","Q","R","S","T","U","V","W","X","Y","Z" >>
LowerCaseLetters == << "a","b","c","d","e","f","g","h","i","j","k","l","m",
                       "n","o","p","q","r","s","t","u","v","w","x","y","z" >>
Digits == << "0","1","2","3","4","5","6","7","8","9" >>

IndexOf(c, seq) == IF \E i \in 1..Len(seq) : seq[i] = c
                   THEN CHOOSE i \in 1..Len(seq) : seq[i] = c
                   ELSE 0

\* String.prototype.toLowerCase / toUpperCase, character by character
toLowerCase(s) == [i \in 1..Len(s) |->
                     IF IndexOf(s[i], ALPHABET) # 0
                     THEN LowerCaseLetters[IndexOf(s[i], ALPHABET)] ELSE s[i]]
toUpperCase(s) == [i \in 1..Len(s) |->
                     IF IndexOf(s[i], LowerCaseLetters) # 0
                     THEN ALPHABET[IndexOf(s[i], LowerCaseLetters)] ELSE s[i]]

\* String.prototype.trim: strips the white space at both ends
RECURSIVE trimStart(_)
trimStart(s) == IF s # <<>> /\ Head(s) = " " THEN trimStart(Tail(s)) ELSE s
RECURSIVE trimEnd(_)
trimEnd(s) == IF s # <<>> /\ s[Len(s)] = " " THEN trimEnd(SubSeq(s, 1, Len(s) - 1)) ELSE s
trim(s) == trimEnd(trimStart(s))

\* A value that is `undefined` in JavaScript (an absent field of a document or
\* of a request body)
undefined == [ty |-> "undefined", s |-> <<>>, n |-> 0]

\* String(n) of a template literal, for the numbers the generators produce
NumberToString(n) == IF n < 10 THEN << Digits[n + 1] >>
               ELSE << Digits[(n \div 10) + 1], Digits[(n % 10) + 1] >>

-----------------------------------------------------------------------------
(* Problems and their generators *)

NUMBERS == << 0, 1, 2, 3, 4, 5, 6, 7, 8, 9 >>
BASIC_WORDS == << << "H","E","L","L","O" >>, << "T","H","A","N","K" >>, << "Y","O","U" >>,
                  << "Y","E","S" >>, << "N","O" >>, << "P","L","E","A","S","E" >>,
                  << "S","O","R","R","Y" >>, << "H","E","L","P" >>,
                  << "W","A","T","E","R" >>, << "F","O","O","D" >> >>

\* Math.floor(Math.random() * 10) + 1 of the room-creation handler
InitialNumbers == << 1, 2, 3, 4, 5, 6, 7, 8, 9, 10 >>

ProblemTypes == {"alphabet", "number", "word"}

\* A Problem object; the question is the template text and the value put in it
LetterProblem(letter) ==
    [type |-> "alphabet",
     question |-> [text |-> "Sign the letter: ", arg |-> << letter >>],
     answer |-> Str(<< letter >>)]
NumberProblem(number) ==
    [type |-> "number",
     question |-> [text |-> "Sign the number: ", arg |-> NumberToString(number)],
     answer |-> Num(number)]
WordProblem(word) ==
    [type |-> "word",
     question |-> [text |-> "Sign the word: ", arg |-> word],
     answer |-> Str(word)]

\* Every problem a generator can return, given its list of numbers
AllProblems(numbers) ==
    {LetterProblem(ALPHABET[i]) : i \in 1..Len(ALPHABET)}
      \cup {NumberProblem(numbers[i]) : i \in 1..Len(numbers)}
      \cup {WordProblem(BASIC_WORDS[i]) : i \in 1..Len(BASIC_WORDS)}

\* The same problems in a fixed order that alternates the three types: the
\* k-th letter, the k-th number, the k-th word, for k = 1, 2, ...
Pool(numbers) ==
    [k \in 1..(3 * Len(numbers)) |->
        LET i == ((k - 1) \div 3) + 1 IN
        CASE (k - 1) % 3 = 0 -> LetterProblem(ALPHABET[i])
          [] (k - 1) % 3 = 1 -> NumberProblem(numbers[i])
          [] OTHER -> WordProblem(BASIC_WORDS[i])]

\* the problems Math.random() selects, within the model's bound
Picks(pool) == {pool[k] : k \in 1..Min(MaxPick, Len(pool))}

\* generateNewProblem of the competition page: the problems it returns
generateNewProblem == Picks(Pool(NUMBERS))

\* the initial problem of POST /api/room: the problems it produces
initialProblem == Picks(Pool(InitialNumbers))

\* current_problem: undefined of a Room object
NoProblem == [type |-> "undefined", question |-> [text |-> "", arg |-> <<>>], answer |-> undefined]

-----------------------------------------------------------------------------
(* Users, room codes *)

Users == {"h", "g", "x"}       \* the ids localStorage 'userId' holds
Clients == {"h", "g"}          \* the users who open the competition page
NoUser == ""                   \* guest_id: '' of a room nobody joined
UndefinedUser == "undefined"   \* last_solved_by of a document without the field
UserName(u) == CASE u = "h" -> "Hana" [] u = "g" -> "Gus" [] OTHER -> "Xi"

RoomCodeLength == 8
CodeChars == {ALPHABET[i] : i \in 1..Len(ALPHABET)} \cup {Digits[i] : i \in 1..Len(Digits)}

\* /^[A-Z0-9]{8}$/.test(code)
ValidRoomCode(code) == Len(code) = RoomCodeLength /\ \A i \in 1..Len(code) : code[i] \in CodeChars

TheCode == << "A","B","C","D","1","2","3","4" >>   \* the room the two clients play in

-----------------------------------------------------------------------------
(* The store: Firestore collection 'rooms' *)

\* A document is [id |-> document id, data |-> the fields of the room]

\* getDocs(query(roomsRef, where('room_code', '==', code))): positions of the matches
QueryIn(store, code) == {i \in 1..Len(store) : store[i].data.room_code = code}
QueryByCode(code) == QueryIn(rooms, code)
\* snapshot.docs[0]
FirstIn(store, code) == CHOOSE i \in QueryIn(store, code) : \A j \in QueryIn(store, code) : i <= j
FirstDoc(code) == FirstIn(rooms, code)

roomCodeExists(roomCode) == QueryByCode(roomCode) # {}

\* updateDoc(ref, fields): the fields given replace the stored ones, the rest stay
UpdateDoc(data, fields) ==
    [k \in DOMAIN data \cup DOMAIN fields |-> IF k \in DOMAIN fields THEN fields[k] ELSE data[k]]

\* addDoc: document ids are random, so the new document may come anywhere in
\* the order in which a query returns the collection
InsertAt(seq, i, d) == SubSeq(seq, 1, i - 1) \o << d >> \o SubSeq(seq, i, Len(seq))

\* x || d for the JavaScript values of the model
Falsy(v) == \/ v.ty = "undefined"
            \/ v.ty = "number" /\ v.n = 0
            \/ v.ty = "string" /\ v.s = <<>>

\* the room document that POST /api/room writes
NewRoomData(roomCode, host_id, host_name, finalGoalScore, problem) ==
    [room_code |-> roomCode,
     host_id |-> host_id,
     guest_id |-> NoUser,
     is_started |-> FALSE,
     is_finished |-> FALSE,
     host_score |-> 0,
     guest_score |-> 0,
     host_name |-> host_name,
     guest_name |-> "",
     host_skipped |-> FALSE,
     guest_skipped |-> FALSE,
     host_given_up |-> FALSE,
     guest_given_up |-> FALSE,
     goal_score |-> finalGoalScore,
     current_problem |-> problem,
     last_solved_by |-> UndefinedUser]

\* The Room object that GET /api/room/[roomCode] builds from a document
GetRoom(data) ==
    [data EXCEPT !.goal_score = IF @ = 0 THEN 10 ELSE @,
                 !.last_solved_by = IF @ = "" THEN UndefinedUser ELSE @]

-----------------------------------------------------------------------------
(* POST /api/room: create a room *)

NoRequest == [state |-> "none"]

\* NextResponse.json({error}, {status}), or the success response with error ""
Response(op, by, status, code, text) ==
    [op |-> op, by |-> by, status |-> status, code |-> code, error |-> text]

\* goal_score || 10
finalGoalScore(goal_score) == IF Falsy(goal_score) THEN Num(10) ELSE goal_score

\* Number.isInteger(v) && v >= 1 (the numbers of the model are integers)
ValidGoalScore(v) == v.ty = "number" /\ v.n >= 1

\* The handler up to `await roomCodeExists(roomCodeUpper)`: answers 400 or 409,
\* or goes on with the code found free
PostRoomCheck(u, body) ==
    /\ creating[u] = NoRequest
    /\ LET roomCodeUpper == toUpperCase(body.room_code.s) IN
         IF body.host_id = ""
         THEN /\ last' = Response("create", u, 400, body.room_code.s, "host_id is required")
              /\ UNCHANGED creating
         ELSE IF Falsy(body.room_code)
         THEN /\ last' = Response("create", u, 400, body.room_code.s, "room_code is required")
              /\ UNCHANGED creating
         ELSE IF ~ValidRoomCode(roomCodeUpper)
         THEN /\ last' = Response("create", u, 400, body.room_code.s,
                                  "room_code must be 8 alphanumeric characters")
              /\ UNCHANGED creating
         ELSE IF roomCodeExists(roomCodeUpper)
         THEN /\ last' = Response("create", u, 409, roomCodeUpper,
                                  "Room code already exists. Please generate a new one.")
              /\ UNCHANGED creating
         ELSE /\ creating' = [creating EXCEPT ![u] =
                               [state |-> "checked", body |-> body, roomCode |-> roomCodeUpper]]
              /\ UNCHANGED last
    /\ UNCHANGED <<rooms, joining, pageVars, compared, viewVars>>

\* The rest of the handler: goal_score validation, initial problem, addDoc
PostRoomAdd(u) ==
    /\ creating[u] # NoRequest
    /\ creating' = [creating EXCEPT ![u] = NoRequest]
    /\ LET body == creating[u].body
           goal == finalGoalScore(body.goal_score) IN
         IF ~ValidGoalScore(goal)
         THEN /\ last' = Response("create", u, 400, creating[u].roomCode,
                                  "goal_score must be a positive integer")
              /\ UNCHANGED rooms
         ELSE /\ \E problem \in initialProblem, i \in 1..(Len(rooms) + 1) :
                    rooms' = InsertAt(rooms, i,
                        [id |-> Len(rooms) + 1,
                         data |-> NewRoomData(creating[u].roomCode, body.host_id,
                                              IF body.host_name = "" THEN "anonymous"
                                              ELSE body.host_name,
                                              goal.n, problem)])
              /\ last' = Response("create", u, 201, creating[u].roomCode, "")
    /\ UNCHANGED <<joining, pageVars, compared, viewVars>>

\* handleCreateRoom of the lessons page: the goal score is within 1..20 and the
\* code is the 8-character code that generateRoomCode made
GoalScoreMin == 1
GoalScoreMax == 20
handleCreateRoom(u, goalScore, roomCode) ==
    /\ ~(goalScore < GoalScoreMin \/ goalScore > GoalScoreMax)
    /\ PostRoomCheck(u, [host_id |-> u, host_name |-> UserName(u),
                         goal_score |-> Num(goalScore), room_code |-> Str(roomCode)])

-----------------------------------------------------------------------------
(* POST /api/room/[roomCode]/join *)

DocWithId(id) == CHOOSE i \in 1..Len(rooms) : rooms[i].id = id

\* the fields of docSnapshot.data() that the handler reads
ReadByJoin(data) ==
    [guest_id |-> data.guest_id, host_id |-> data.host_id,
     is_started |-> data.is_started, is_finished |-> data.is_finished]

\* The handler up to `await getDocs(q)`: 400 without guest_id, 404 when no room
\* has the code, else it goes on with the document it read
JoinRead(u, roomCode, guest_id, guest_name) ==
    /\ joining[u] = NoRequest
    /\ LET code == toUpperCase(roomCode) IN
         IF guest_id = ""
         THEN /\ last' = Response("join", u, 400, code, "guest_id is required")
              /\ UNCHANGED joining
         ELSE IF ~roomCodeExists(code)
         THEN /\ last' = Response("join", u, 404, code, "Room not found")
              /\ UNCHANGED joining
         ELSE /\ joining' = [joining EXCEPT ![u] =
                    [state |-> "read", id |-> rooms[FirstDoc(code)].id,
                     roomData |-> ReadByJoin(rooms[FirstDoc(code)].data), code |-> code,
                     guest_id |-> guest_id, guest_name |-> guest_name]]
              /\ UNCHANGED last
    /\ UNCHANGED <<rooms, creating, pageVars, compared, viewVars>>

\* JoinError without the check of the host's own id
JoinErrorNoOwnCheck(roomData, guest_id) ==
    IF roomData.guest_id # "" THEN "Room is already full"
    ELSE IF roomData.is_started THEN "Room game has already started"
    ELSE IF roomData.is_finished THEN "Room game has already finished"
    ELSE ""

\* JoinError without its first check
JoinErrorNoFullCheck(roomData, guest_id) ==
    IF roomData.host_id = guest_id THEN "Cannot join your own room"
    ELSE IF roomData.is_started THEN "Room game has already started"
    ELSE IF roomData.is_finished THEN "Room game has already finished"
    ELSE ""

\* The checks of the handler on the document it read, in their order: the
\* error of the first one that fails, "" when none does
JoinError(roomData, guest_id) ==
    IF roomData.guest_id # "" THEN "Room is already full"
    ELSE IF roomData.host_id = guest_id THEN "Cannot join your own room"
    ELSE IF roomData.is_started THEN "Room game has already started"
    ELSE IF roomData.is_finished THEN "Room game has already finished"
    ELSE ""

\* The rest of the handler: the checks, then updateDoc(roomRef, {guest_id, guest_name})
JoinWrite(u) ==
    /\ joining[u] # NoRequest
    /\ joining' = [joining EXCEPT ![u] = NoRequest]
    /\ IF JoinError(joining[u].roomData, joining[u].guest_id) # ""
       THEN /\ last' = Response("join", u, 400, joining[u].code,
                                JoinError(joining[u].roomData, joining[u].guest_id))
            /\ UNCHANGED <<rooms, history>>
       ELSE LET joined == UpdateDoc(rooms[DocWithId(joining[u].id)].data,
                                    [guest_id |-> joining[u].guest_id,
                                     guest_name |-> IF joining[u].guest_name = ""
                                                    THEN "Guest"
                                                    ELSE joining[u].guest_name])
            IN  /\ rooms' = [rooms EXCEPT ![DocWithId(joining[u].id)].data = joined]
                /\ history' = IF history = <<>> THEN history
                              ELSE Append(history,
                                     [data |-> joined,
                                      cause |-> [op |-> "join", by |-> u, base |-> 0,
                                                 body |-> <<>>],
                                      inst |-> history[Len(history)].inst])
                /\ last' = Response("join", u, 200, joining[u].code, "")
    /\ UNCHANGED <<creating, room, justAnswered, isHost, puts, compared, viewVars>>

\* handleJoinRoom of the lessons page
handleJoinRoom(u, joinRoomCode) ==
    /\ ~(joinRoomCode = <<>> \/ Len(trim(joinRoomCode)) # RoomCodeLength)
    /\ u # ""
    /\ JoinRead(u, toUpperCase(joinRoomCode), u, UserName(u))

-----------------------------------------------------------------------------
(* The competition page: one instance per client, for the room TheCode *)

roomCode == TheCode     \* searchParams.get('room')

\* roomCode.toUpperCase().trim(), the code the GET and PUT handlers look up
RoomKey == trim(toUpperCase(roomCode))

\* getCurrentUserId(): localStorage 'userId' of the client's browser
getCurrentUserId(c) == c

\* `history` lists the versions of the document that a GET for RoomKey returns,
\* each with the write that made it: [data, cause, inst].  `inst` numbers the
\* challenge instances: it counts the writes of current_problem so far.
\* A client's `room` is 0 for null, else the version its copy was read from.
Null == 0
Stored == history[Len(history)].data
Local(c) == GetRoom(history[room[c]].data)

JsonValueUndefined(k, v) ==
    \/ k = "current_problem" /\ v = NoProblem
    \/ k = "last_solved_by" /\ v = UndefinedUser
\* JSON.stringify(updates): a property whose value is undefined is left out
JsonStringify(updates) ==
    [k \in {f \in DOMAIN updates : ~JsonValueUndefined(f, updates[f])} |-> updates[k]]

IsScoring(body) == "host_score" \in DOMAIN body \/ "guest_score" \in DOMAIN body
WritesProblem(body) == "current_problem" \in DOMAIN body

Remove(seq, i) == SubSeq(seq, 1, i - 1) \o SubSeq(seq, i + 1, Len(seq))
PutsInFlight == Len(puts["h"]) + Len(puts["g"])

\* fetchRoom is memoised on [roomCode] alone, so the `room` it reads is the one
\* of the first render: null
fetchRoomClosureRoom == Null

\* "Reset justAnswered if problem changed or game just started"; old is the
\* version the closure holds
ResetsAnswerLock(old, roomData) ==
    LET oldRoom == GetRoom(history[old].data) IN
    IF old # Null /\ oldRoom.current_problem # NoProblem /\ roomData.current_problem # NoProblem
    THEN \/ oldRoom.current_problem.question # roomData.current_problem.question
         \/ oldRoom.current_problem.answer # roomData.current_problem.answer
    ELSE ~(old # Null /\ oldRoom.is_started) /\ roomData.is_started

\* fetchRoom: GET /api/room/[roomCode] and, when its response arrives, setRoom,
\* setIsHost and the lock reset.  Responses arrive late and in any order, so
\* the room that arrives is any version v of the document.
fetchRoomResponse(c, v) ==
    /\ v \in 1..Len(history)
    /\ LET roomData == GetRoom(history[v].data) IN
         /\ room' = [room EXCEPT ![c] = v]
         /\ isHost' = [isHost EXCEPT ![c] = (roomData.host_id = getCurrentUserId(c))]
         /\ justAnswered' = [justAnswered EXCEPT ![c] =
                 IF ResetsAnswerLock(fetchRoomClosureRoom, roomData) THEN FALSE ELSE @]
    /\ UNCHANGED <<storeVars, history, puts, viewVars>>

fetchRoom(c, v) == fetchRoomResponse(c, v) /\ UNCHANGED compared

\* updateRoom, first half: the PUT request leaves the client
SendPut(c, updates) ==
    /\ Len(puts[c]) < MaxPuts
    /\ (Len(history) - 1) + PutsInFlight < MaxWrites
    /\ puts' = [puts EXCEPT ![c] = Append(@, [body |-> JsonStringify(updates), base |-> room[c]])]

\* PUT /api/room/[roomCode] served, in any order: updateDoc(roomRef, {...body}).
\* The fetchRoom that updateRoom awaits next is a fetchRoom step.
ServePut(c, i) ==
    /\ i \in 1..Len(puts[c])
    /\ roomCodeExists(RoomKey)
    /\ LET put == puts[c][i]
           d == FirstDoc(RoomKey)
           data == UpdateDoc(rooms[d].data, put.body)
       IN  /\ rooms' = [rooms EXCEPT ![d].data = data]
           /\ history' = Append(history,
                  [data |-> data,
                   cause |-> [op |-> "put", by |-> c, base |-> put.base, body |-> put.body],
                   inst |-> history[Len(history)].inst
                              + (IF WritesProblem(put.body) THEN 1 ELSE 0)])
           /\ puts' = [puts EXCEPT ![c] = Remove(@, i)]
    /\ UNCHANGED <<creating, joining, last, room, justAnswered, isHost, compared, viewVars>>

\* generateNewProblem() as startGame calls it: the first MaxStartPick problems
\* of the pool, so that two starts can carry different problems
firstProblem == {Pool(NUMBERS)[k] : k \in 1..Min(MaxStartPick, Len(Pool(NUMBERS)))}

\* startGame, behind the Start Game button (shown when the local room is not
\* started, the client is the host and a guest is present)
startGame(c) ==
    /\ room[c] # Null
    /\ ~Local(c).is_started /\ isHost[c] /\ Local(c).guest_id # ""
    /\ \E newProblem \in firstProblem :
          SendPut(c, [is_started |-> TRUE, current_problem |-> newProblem])
    /\ UNCHANGED <<storeVars, history, room, justAnswered, isHost, compared, viewVars>>

\* the Skip and Give Up buttons shown as soon as the room is loaded
ActionButtonsAlwaysShown(c) == room[c] # Null

\* The Skip and Give Up buttons are shown while the local room is started and
\* not finished
ActionButtonsShown(c) ==
    room[c] # Null /\ Local(c).is_started /\ ~Local(c).is_finished

handleSkip(c) ==
    /\ ActionButtonsShown(c)
    /\ LET isHostUser == Local(c).host_id = getCurrentUserId(c) IN
         \E newProblem \in generateNewProblem :
            SendPut(c, (IF isHostUser THEN [host_skipped |-> TRUE] ELSE [guest_skipped |-> TRUE])
                        @@ [current_problem |-> newProblem, last_solved_by |-> UndefinedUser])
    /\ UNCHANGED <<storeVars, history, room, justAnswered, isHost, compared, viewVars>>

\* handleGiveUp sending a new problem with the give-up, as handleSkip does
handleGiveUpNewProblem(c) ==
    /\ ActionButtonsShown(c)
    /\ LET isHostUser == Local(c).host_id = getCurrentUserId(c) IN
         \E newProblem \in firstProblem :
            SendPut(c, (IF isHostUser THEN [host_given_up |-> TRUE] ELSE [guest_given_up |-> TRUE])
                        @@ [is_finished |-> TRUE, current_problem |-> newProblem])
    /\ UNCHANGED <<storeVars, history, room, justAnswered, isHost, compared, viewVars>>

handleGiveUp(c) ==
    /\ ActionButtonsShown(c)
    /\ LET isHostUser == Local(c).host_id = getCurrentUserId(c) IN
         SendPut(c, (IF isHostUser THEN [host_given_up |-> TRUE] ELSE [guest_given_up |-> TRUE])
                     @@ [is_finished |-> TRUE])
    /\ UNCHANGED <<storeVars, history, room, justAnswered, isHost, compared, viewVars>>

\* "Compare answers - case-insensitive for strings, strict for numbers"
isCorrect(detected, answer) ==
    IF detected.ty = "string" /\ answer.ty = "string"
    THEN trim(toLowerCase(detected.s)) = trim(toLowerCase(answer.s))
    ELSE detected = answer

\* checkAnswer of app/(router)/games/asl-competition/page.tsx, the other copy
\* of the page: detected === currentProblem.answer
detectedEqualsAnswer(detected, answer) == detected = answer

\* The text of the Game Finished card
WinnerText(r) ==
    IF r.host_score > r.guest_score THEN << r.host_name, " Wins!" >>
    ELSE IF r.guest_score > r.host_score THEN << r.guest_name, " Wins!" >>
    ELSE << "It's a Tie!" >>

\* ScoreUpdates with the goal compared by > in place of >=
ScoreUpdatesAboveGoal(r, userId, newProblems) ==
    LET isHostUser == r.host_id = userId
        newHostScore == IF isHostUser THEN r.host_score + 1 ELSE r.host_score
        newGuestScore == IF isHostUser THEN r.guest_score ELSE r.guest_score + 1
        gameFinished == newHostScore > r.goal_score \/ newGuestScore > r.goal_score
    IN  {(IF isHostUser THEN [host_score |-> newHostScore] ELSE [guest_score |-> newGuestScore])
           @@ [is_finished |-> gameFinished,
               current_problem |-> newProblem,
               last_solved_by |-> userId] :
         newProblem \in IF gameFinished THEN {NoProblem} ELSE newProblems}

\* the updates of a correct answer, computed from the local room
ScoreUpdates(r, userId, newProblems) ==
    LET isHostUser == r.host_id = userId
        newHostScore == IF isHostUser THEN r.host_score + 1 ELSE r.host_score
        newGuestScore == IF isHostUser THEN r.guest_score ELSE r.guest_score + 1
        gameFinished == newHostScore >= r.goal_score \/ newGuestScore >= r.goal_score
    IN  {(IF isHostUser THEN [host_score |-> newHostScore] ELSE [guest_score |-> newGuestScore])
           @@ [is_finished |-> gameFinished,
               current_problem |-> newProblem,
               last_solved_by |-> userId] :
         newProblem \in IF gameFinished THEN {NoProblem} ELSE newProblems}

\* what the classifier can report for a problem: its answer as the classifier
\* spells it, and another value of the same kind
Detections(problem) ==
    CASE problem.type = "alphabet" -> {Str(toLowerCase(problem.answer.s)), Str(<< "Z" >>)}
      [] problem.type = "number" -> {problem.answer, Num(problem.answer.n + 1)}
      [] problem.type = "word" -> {Str(toLowerCase(problem.answer.s)), Str(<< "N","O","N","E" >>)}
      [] OTHER -> {}

\* checkAnswer taking every detected value for the answer
checkAnswerNoCompare(c, detected) ==
    /\ room[c] # Null
    /\ ~(Local(c).current_problem = NoProblem \/ justAnswered[c]
           \/ ~Local(c).is_started \/ Local(c).is_finished)
    /\ justAnswered' = [justAnswered EXCEPT ![c] = TRUE]
    /\ \E updates \in ScoreUpdates(Local(c), getCurrentUserId(c), generateNewProblem) :
          SendPut(c, updates)
    /\ UNCHANGED <<storeVars, history, room, isHost, compared, viewVars>>

\* checkAnswer(detected), called by the detection callback
checkAnswer(c, detected) ==
    /\ room[c] # Null
    /\ ~(Local(c).current_problem = NoProblem \/ justAnswered[c]
           \/ ~Local(c).is_started \/ Local(c).is_finished)
    /\ IF isCorrect(detected, Local(c).current_problem.answer)
       THEN /\ justAnswered' = [justAnswered EXCEPT ![c] = TRUE]
            /\ \E updates \in ScoreUpdates(Local(c), getCurrentUserId(c), generateNewProblem) :
                  SendPut(c, updates)
       ELSE UNCHANGED <<justAnswered, puts>>
    /\ UNCHANGED <<storeVars, history, room, isHost, compared, viewVars>>

detectHandSign(c) ==
    /\ room[c] # Null
    /\ \E detected \in Detections(Local(c).current_problem) : checkAnswer(c, detected)

\* The timer checkAnswer sets once its scoring PUT has been answered, when the
\* answer carried a new problem: updateRoom({ last_solved_by: undefined }) two
\* seconds later.  One timer per such answer of the client.
TimersSet(c) ==
    Cardinality({i \in 2..Len(history) :
        /\ history[i].cause.op = "put" /\ history[i].cause.by = c
        /\ IsScoring(history[i].cause.body) /\ WritesProblem(history[i].cause.body)})
TimersFired(c) ==
    Cardinality({i \in 2..Len(history) :
        /\ history[i].cause.op = "put" /\ history[i].cause.by = c
        /\ DOMAIN history[i].cause.body = {}})
      + Cardinality({k \in 1..Len(puts[c]) : DOMAIN puts[c][k].body = {}})
clearSolvedMessage(c) ==
    /\ TimersFired(c) < TimersSet(c)
    /\ SendPut(c, [last_solved_by |-> UndefinedUser])
    /\ UNCHANGED <<storeVars, history, room, justAnswered, isHost, compared, viewVars>>

-----------------------------------------------------------------------------
(* The game: the specification of two clients playing in a joined room *)

NotCompared == [state |-> "none"]
NoResponse == Response("none", "", 0, <<>>, "")

NoError == ""
ViewOpen ==
    /\ error = [c \in Clients |-> NoError]
    /\ mounted = [c \in Clients |-> TRUE]

PagesClosed ==
    /\ ViewOpen
    /\ room = [c \in Clients |-> Null]
    /\ justAnswered = [c \in Clients |-> FALSE]
    /\ isHost = [c \in Clients |-> FALSE]
    /\ puts = [c \in Clients |-> <<>>]

\* The room after "h" created it (handleCreateRoom) and "g" joined it
JoinedRoom(goalScore, problem) ==
    UpdateDoc(NewRoomData(RoomKey, "h", UserName("h"), goalScore, problem),
              [guest_id |-> "g", guest_name |-> UserName("g")])

Init ==
    /\ \E goalScore \in 1..MaxGoal, problem \in initialProblem :
          /\ rooms = << [id |-> 1, data |-> JoinedRoom(goalScore, problem)] >>
          /\ history = << [data |-> JoinedRoom(goalScore, problem),
                           cause |-> [op |-> "join", by |-> "g", base |-> 0, body |-> <<>>],
                           inst |-> 1] >>
    /\ creating = [u \in Users |-> NoRequest]
    /\ joining = [u \in Users |-> NoRequest]
    /\ last = NoResponse
    /\ PagesClosed
    /\ compared = NotCompared

PollRoom == \E c \in Clients, v \in 1..Len(history) : fetchRoom(c, v)
RoomUpdated == \E c \in Clients, i \in 1..MaxPuts : ServePut(c, i)
Start == \E c \in Clients : startGame(c)
Skip == \E c \in Clients : handleSkip(c)
GiveUp == \E c \in Clients : handleGiveUp(c)
Detect == \E c \in Clients : detectHandSign(c)
ClearSolved == \E c \in Clients : clearSolvedMessage(c)

Next == PollRoom \/ RoomUpdated \/ Start \/ Skip \/ GiveUp \/ Detect \/ ClearSolved

Spec == Init /\ [][Next]_vars

-----------------------------------------------------------------------------
(* Creating rooms: the lessons page and direct requests to POST /api/room *)

Creators == {"h", "x"}
OtherCode == << "Z","Z","Z","Z","9","9","9","9" >>
ShortCode == << "A","B","C" >>
BadCode == << "A","B","C","D","1","2","3","-" >>

\* the values of the goal score input of the dialog
GoalInputs == {0, MaxGoal, GoalScoreMax + 1}
\* the codes generateRoomCode() makes
GeneratedCodes == {TheCode, OtherCode}

\* bodies of requests that do not come from the dialog
ApiBodies(u) ==
    {[host_id |-> host_id, host_name |-> "", goal_score |-> goal_score, room_code |-> room_code] :
        host_id \in {u, ""},
        goal_score \in {undefined, Num(0), Num(GoalScoreMax + 1)},
        room_code \in {undefined, Str(toLowerCase(TheCode)), Str(ShortCode), Str(BadCode)}}

CreatesInFlight == Cardinality({u \in Users : creating[u] # NoRequest})
CanCreate == Len(rooms) + CreatesInFlight < MaxRooms

LobbyInit ==
    /\ history = << >>
    /\ creating = [u \in Users |-> NoRequest]
    /\ joining = [u \in Users |-> NoRequest]
    /\ last = NoResponse
    /\ PagesClosed
    /\ compared = NotCompared

InitCreate == rooms = << >> /\ LobbyInit

CreateRoom ==
    \E u \in Creators, goalScore \in GoalInputs, code \in GeneratedCodes :
        CanCreate /\ handleCreateRoom(u, goalScore, code)
PostRoom == \E u \in Creators : \E body \in ApiBodies(u) : CanCreate /\ PostRoomCheck(u, body)
RoomAdded == \E u \in Creators : PostRoomAdd(u)

NextCreate == CreateRoom \/ PostRoom \/ RoomAdded

SpecCreate == InitCreate /\ [][NextCreate]_vars

-----------------------------------------------------------------------------
(* Joining a room: the lessons page and direct requests to the join route *)

\* the room of "h" before anybody joined it
WaitingRoom(goalScore, problem) == NewRoomData(RoomKey, "h", UserName("h"), goalScore, problem)
\* the room after "g" joined and "h" started the game
StartedRoom(goalScore, problem, newProblem) ==
    UpdateDoc(JoinedRoom(goalScore, problem), [is_started |-> TRUE, current_problem |-> newProblem])

\* what a user types in the room code field
JoinCodes == {TheCode, toLowerCase(TheCode), OtherCode, ShortCode}

InitJoin ==
    /\ \E problem \in initialProblem, newProblem \in generateNewProblem :
          \E data \in {WaitingRoom(MaxGoal, problem), StartedRoom(MaxGoal, problem, newProblem)} :
              rooms = << [id |-> 1, data |-> data] >>
    /\ LobbyInit

JoinRoom == \E u \in Users, joinRoomCode \in JoinCodes : handleJoinRoom(u, joinRoomCode)
PostJoin ==
    \E u \in Users, code \in {TheCode, OtherCode} : \E guest_id \in {u, ""} :
        JoinRead(u, code, guest_id, "")
RoomJoined == \E u \in Users : JoinWrite(u)

NextJoin == JoinRoom \/ PostJoin \/ RoomJoined

SpecJoin == InitJoin /\ [][NextJoin]_vars

-----------------------------------------------------------------------------
(* The life of a room: from the waiting room of "h" to the end of the game *)

InitLife ==
    /\ \E problem \in initialProblem :
          /\ rooms = << [id |-> 1, data |-> WaitingRoom(GoalScoreMin, problem)] >>
          /\ history = << [data |-> WaitingRoom(GoalScoreMin, problem),
                           cause |-> [op |-> "create", by |-> "h", base |-> 0, body |-> <<>>],
                           inst |-> 1] >>
    /\ creating = [u \in Users |-> NoRequest]
    /\ joining = [u \in Users |-> NoRequest]
    /\ last = NoResponse
    /\ PagesClosed
    /\ compared = NotCompared

\* the life is followed up to its fourth version: created, joined, started and
\* one more write
LifeOpen == Len(history) < 4

JoinPlayed == LifeOpen /\ \E u \in Users : handleJoinRoom(u, TheCode)
RoomJoinedLife == LifeOpen /\ RoomJoined
PollRoomLife == LifeOpen /\ PollRoom
RoomUpdatedLife == LifeOpen /\ RoomUpdated
StartLife == LifeOpen /\ Start
SkipLife == LifeOpen /\ Skip
GiveUpLife == LifeOpen /\ GiveUp
DetectLife == LifeOpen /\ Detect

NextLife ==
    \/ JoinPlayed \/ RoomJoinedLife \/ PollRoomLife \/ RoomUpdatedLife
    \/ StartLife \/ SkipLife \/ GiveUpLife \/ DetectLife

SpecLife == InitLife /\ [][NextLife]_vars

-----------------------------------------------------------------------------
(* Scenario A: a game to 3 in which only the guest answers *)

InitA ==
    /\ \E problem \in initialProblem :
          /\ rooms = << [id |-> 1, data |-> JoinedRoom(3, problem)] >>
          /\ history = << [data |-> JoinedRoom(3, problem),
                           cause |-> [op |-> "join", by |-> "g", base |-> 0, body |-> <<>>],
                           inst |-> 1] >>
    /\ creating = [u \in Users |-> NoRequest]
    /\ joining = [u \in Users |-> NoRequest]
    /\ last = NoResponse
    /\ PagesClosed
    /\ compared = NotCompared

\* The scenario is over with its fourth write: the start and three answers
ScenarioAOpen == Len(history) < 5

PollRoomA == ScenarioAOpen /\ PollRoom
RoomUpdatedA == ScenarioAOpen /\ RoomUpdated
StartA == ScenarioAOpen /\ Start
GuestDetect == ScenarioAOpen /\ detectHandSign("g")

NextA == PollRoomA \/ RoomUpdatedA \/ StartA \/ GuestDetect

SpecA == InitA /\ [][NextA]_vars

-----------------------------------------------------------------------------
(* The answer comparison of the two copies of the competition page *)

Pages == {"part_001", "games/asl-competition/page.tsx"}

\* the answers of all the problems the page generates
Answers == {problem.answer : problem \in AllProblems(NUMBERS)}

\* "Hello" for "HELLO"
Capitalised(s) == IF s = << >> THEN s ELSE << s[1] >> \o toLowerCase(Tail(s))

\* what a classifier may report for an answer: the answer itself, the answer
\* in other letter cases and with blanks around it, or something else
Submissions(answer) ==
    IF answer.ty = "string"
    THEN {answer, Str(toLowerCase(answer.s)),
          Str(<< " " >> \o Capitalised(answer.s) \o << " " >>),
          Str(answer.s \o << "S" >>), Num(7)}
    ELSE {answer, Num(answer.n + 1), Str(NumberToString(answer.n))}

InitAnswer ==
    /\ rooms = << >>
    /\ history = << >>
    /\ creating = [u \in Users |-> NoRequest]
    /\ joining = [u \in Users |-> NoRequest]
    /\ last = NoResponse
    /\ PagesClosed
    /\ \E page \in Pages, answer \in Answers : \E detected \in Submissions(answer) :
          compared = [state |-> "asked", page |-> page, detected |-> detected,
                      answer |-> answer, accepted |-> FALSE]

\* the comparison that checkAnswer makes in the copy `page`
CompareAnswer ==
    /\ compared.state = "asked"
    /\ compared' = [compared EXCEPT
          !.state = "done",
          !.accepted = IF compared.page = "part_001"
                       THEN isCorrect(compared.detected, compared.answer)
                       ELSE detectedEqualsAnswer(compared.detected, compared.answer)]
    /\ UNCHANGED <<storeVars, pageVars, viewVars>>

NextAnswer == CompareAnswer

SpecAnswer == InitAnswer /\ [][NextAnswer]_vars

-----------------------------------------------------------------------------
(* Detection: what detectHandSign makes of a response of the classifier *)

\* parseInt(s, 10): the value of the leading digits, NaN when there is none
NaN == [ty |-> "NaN", s |-> <<>>, n |-> 0]
RECURSIVE LeadingDigits(_)
LeadingDigits(s) ==
    IF s # <<>> /\ IndexOf(Head(s), Digits) # 0
    THEN << Head(s) >> \o LeadingDigits(Tail(s)) ELSE <<>>
RECURSIVE DecimalValue(_)
DecimalValue(d) ==
    IF d = <<>> THEN 0
    ELSE 10 * DecimalValue(SubSeq(d, 1, Len(d) - 1)) + (IndexOf(d[Len(d)], Digits) - 1)
parseInt(s) ==
    LET d == LeadingDigits(trimStart(s)) IN
    IF d = <<>> THEN NaN ELSE Num(DecimalValue(d))

threshold == 30

\* A response of the classifier: `value` is top_prediction.letter of
\* test-siglip, letters[0] of track-numbers or predicted_sign of track-video
\* (<<>> when absent); `confidence` is the confidence it reports, in percent
Confidences == {0, threshold - 1, threshold, 95}
Responses(problem) ==
    {[value |-> value, confidence |-> confidence] :
        value \in (IF problem.type = "number"
                   THEN {NumberToString(problem.answer.n), << "x" >>, <<>>}
                   ELSE {problem.answer.s, << "N","O","N","E" >>, <<>>}),
        confidence \in Confidences}

\* the value detectHandSign passes to checkAnswer, `undefined` when it calls
\* nothing
DetectedValue(problem, data) ==
    CASE problem.type = "alphabet" ->
            IF data.value # <<>> THEN Str(data.value) ELSE undefined
      [] problem.type = "number" ->
            IF data.value # <<>> /\ parseInt(data.value) # NaN
            THEN parseInt(data.value) ELSE undefined
      [] problem.type = "word" ->
            IF data.value # <<>> /\ data.confidence >= threshold
            THEN Str(data.value) ELSE undefined
      [] OTHER -> undefined

\* detectHandSign from the response on
detectHandSignOn(c, data) ==
    /\ room[c] # Null
    /\ ~(Local(c).current_problem = NoProblem \/ ~Local(c).is_started
           \/ Local(c).is_finished \/ justAnswered[c])
    /\ IF DetectedValue(Local(c).current_problem, data) = undefined
       THEN UNCHANGED vars
       ELSE checkAnswer(c, DetectedValue(Local(c).current_problem, data))

\* a started room with one problem of each type, and the response that the
\* classifier gives to the frames of client c
InitDetect ==
    /\ \E problem \in {Pool(NUMBERS)[k] : k \in 1..3}, p0 \in initialProblem :
          /\ rooms = << [id |-> 1, data |-> StartedRoom(MaxGoal, p0, problem)] >>
          /\ history = << [data |-> StartedRoom(MaxGoal, p0, problem),
                           cause |-> [op |-> "put", by |-> "h", base |-> 0,
                                      body |-> [is_started |-> TRUE,
                                                current_problem |-> problem]],
                           inst |-> 2] >>
          /\ \E c \in Clients, data \in Responses(problem) :
                compared = [state |-> "response", by |-> c, data |-> data]
    /\ creating = [u \in Users |-> NoRequest]
    /\ joining = [u \in Users |-> NoRequest]
    /\ last = NoResponse
    /\ PagesClosed

\* the response is followed up to the second write it leads to
DetectOpen == Len(history) < 3

PollRoomDetect == DetectOpen /\ PollRoom
DetectResponse ==
    DetectOpen /\ \E c \in Clients : compared.by = c /\ detectHandSignOn(c, compared.data)
RoomUpdatedDetect == DetectOpen /\ RoomUpdated

NextDetect == PollRoomDetect \/ DetectResponse \/ RoomUpdatedDetect

SpecDetect == InitDetect /\ [][NextDetect]_vars

-----------------------------------------------------------------------------
(* A visitor: the room view opened by a user who is not in the room *)

\* the started room of host "h" and guest "x"; the page "g" opens its view
VisitedRoom(problem, newProblem) ==
    UpdateDoc(StartedRoom(MaxGoal, problem, newProblem),
              [guest_id |-> "x", guest_name |-> UserName("x")])

InitVisitor ==
    /\ \E problem \in initialProblem, newProblem \in firstProblem :
          /\ rooms = << [id |-> 1, data |-> VisitedRoom(problem, newProblem)] >>
          /\ history = << [data |-> VisitedRoom(problem, newProblem),
                           cause |-> [op |-> "put", by |-> "h", base |-> 0,
                                      body |-> [is_started |-> TRUE,
                                                current_problem |-> newProblem]],
                           inst |-> 2] >>
    /\ creating = [u \in Users |-> NoRequest]
    /\ joining = [u \in Users |-> NoRequest]
    /\ last = NoResponse
    /\ PagesClosed
    /\ compared = NotCompared

\* the visit is followed up to the second write after the start
VisitOpen == Len(history) < 3

PollRoomVisitor == VisitOpen /\ PollRoom
RoomUpdatedVisitor == VisitOpen /\ RoomUpdated
SkipVisitor == VisitOpen /\ Skip
GiveUpVisitor == VisitOpen /\ GiveUp
DetectVisitor == VisitOpen /\ Detect

NextVisitor ==
    PollRoomVisitor \/ RoomUpdatedVisitor \/ SkipVisitor \/ GiveUpVisitor \/ DetectVisitor

SpecVisitor == InitVisitor /\ [][NextVisitor]_vars

-----------------------------------------------------------------------------
(* Detections in flight: detectHandSign awaits the classifier, and the interval
   calls it again every 100 ms *)

\* A call of detectHandSign that awaits its response keeps the `room`,
\* `justAnswered` and checkAnswer of the render that made it: `compared.calls[c]`
\* lists these calls of page c as [room, justAnswered]
Detecting(calls) == [state |-> "detecting", calls |-> calls]

\* detectHandSign up to `await fetch(endpoint, ...)`
detectHandSignCall(c) ==
    /\ compared.state = "detecting"
    /\ Len(compared.calls[c]) < MaxDetections
    /\ room[c] # Null
    /\ ~(Local(c).current_problem = NoProblem \/ ~Local(c).is_started
           \/ Local(c).is_finished \/ justAnswered[c])
    /\ compared' = Detecting([compared.calls EXCEPT ![c] =
                        Append(@, [room |-> room[c], justAnswered |-> justAnswered[c]])])
    /\ UNCHANGED <<storeVars, pageVars, viewVars>>

\* the response arrives: checkAnswer(detected) of the render the call was
\* made in
detectHandSignResponse(c, k) ==
    /\ compared.state = "detecting"
    /\ k \in 1..Len(compared.calls[c])
    /\ compared' = Detecting([compared.calls EXCEPT ![c] = Remove(@, k)])
    /\ LET call == compared.calls[c][k]
           r == GetRoom(history[call.room].data)
       IN  \E detected \in Detections(r.current_problem) :
             IF ~(r.current_problem = NoProblem \/ call.justAnswered
                    \/ ~r.is_started \/ r.is_finished)
                /\ isCorrect(detected, r.current_problem.answer)
             THEN /\ justAnswered' = [justAnswered EXCEPT ![c] = TRUE]
                  /\ \E updates \in ScoreUpdates(r, getCurrentUserId(c), generateNewProblem) :
                        /\ Len(puts[c]) < MaxPuts
                        /\ (Len(history) - 1) + PutsInFlight < MaxWrites
                        /\ puts' = [puts EXCEPT ![c] =
                                       Append(@, [body |-> JsonStringify(updates),
                                                  base |-> call.room])]
             ELSE UNCHANGED <<justAnswered, puts>>
    /\ UNCHANGED <<storeVars, history, room, isHost, viewVars>>

\* a started room that both pages have loaded; no poll answers during the
\* detections
InitOverlap ==
    /\ \E problem \in initialProblem, newProblem \in firstProblem :
          /\ rooms = << [id |-> 1, data |-> StartedRoom(MaxGoal, problem, newProblem)] >>
          /\ history = << [data |-> StartedRoom(MaxGoal, problem, newProblem),
                           cause |-> [op |-> "put", by |-> "h", base |-> 0,
                                      body |-> [is_started |-> TRUE,
                                                current_problem |-> newProblem]],
                           inst |-> 2] >>
    /\ creating = [u \in Users |-> NoRequest]
    /\ joining = [u \in Users |-> NoRequest]
    /\ last = NoResponse
    /\ ViewOpen
    /\ room = [c \in Clients |-> 1]
    /\ justAnswered = [c \in Clients |-> FALSE]
    /\ isHost = [c \in Clients |-> c = "h"]
    /\ puts = [c \in Clients |-> <<>>]
    /\ compared = Detecting([c \in Clients |-> <<>>])

DetectionCalled == \E c \in Clients : detectHandSignCall(c)
DetectionAnswered == \E c \in Clients, k \in 1..MaxDetections : detectHandSignResponse(c, k)
RoomUpdatedOverlap == RoomUpdated

NextOverlap == DetectionCalled \/ DetectionAnswered \/ RoomUpdatedOverlap

SpecOverlap == InitOverlap /\ [][NextOverlap]_vars

-----------------------------------------------------------------------------
(* The room poll when fetches fail *)

\* the messages of the catch block of fetchRoom: that of the Error it throws
\* on a response that is not ok, and that of a fetch that could not connect
FetchErrors == {"Failed to fetch room", "Failed to fetch"}

\* fetchRoom when the GET fails: setError(...), the room is left as it is
fetchRoomFailed(c, message) ==
    /\ error' = [error EXCEPT ![c] = message]
    /\ UNCHANGED <<storeVars, pageVars, compared, mounted>>

\* the interval of the poll effect, were a failed fetch to clear it
PollScheduledUntilError(c) == mounted[c] /\ error[c] = NoError
\* the interval of the poll effect exists from mount to unmount
PollScheduled(c) == mounted[c]

\* the page renders the error card instead of the room while `error` is set
\* or no room is loaded
ShowsRoom(c) == mounted[c] /\ error[c] = NoError /\ room[c] # Null

PollTick(c, v) == PollScheduled(c) /\ fetchRoom(c, v)

PollOk == \E c \in Clients, v \in 1..Len(history) : PollTick(c, v)
PollFailed ==
    \E c \in Clients, message \in FetchErrors : PollScheduled(c) /\ fetchRoomFailed(c, message)
\* the runs stop sending once the room has been written twice
PollOpen == Len(history) < 3

StartShown == PollOpen /\ \E c \in Clients : ShowsRoom(c) /\ startGame(c)
SkipShown == PollOpen /\ \E c \in Clients : ShowsRoom(c) /\ handleSkip(c)
RoomUpdatedPoll == RoomUpdated

NextPoll == PollOk \/ PollFailed \/ StartShown \/ SkipShown \/ RoomUpdatedPoll

SpecPoll == Init /\ [][NextPoll]_vars

-----------------------------------------------------------------------------
(* Leaving the room view *)

\* The page unmounts: the cleanups of the poll effect and of the detection
\* effect clear their intervals.  Nothing else is released: the timers set by
\* checkAnswer and the requests in flight stay as they are.
Leave(c) ==
    /\ mounted[c]
    /\ mounted' = [mounted EXCEPT ![c] = FALSE]
    /\ UNCHANGED <<storeVars, pageVars, compared, error>>

\* the interval of the detection effect exists from mount to unmount
DetectionScheduled(c) == mounted[c]

InitTeardown ==
    /\ \E problem \in initialProblem, newProblem \in firstProblem :
          /\ rooms = << [id |-> 1, data |-> StartedRoom(MaxGoal, problem, newProblem)] >>
          /\ history = << [data |-> StartedRoom(MaxGoal, problem, newProblem),
                           cause |-> [op |-> "put", by |-> "h", base |-> 0,
                                      body |-> [is_started |-> TRUE,
                                                current_problem |-> newProblem]],
                           inst |-> 2] >>
    /\ creating = [u \in Users |-> NoRequest]
    /\ joining = [u \in Users |-> NoRequest]
    /\ last = NoResponse
    /\ ViewOpen
    /\ room = [c \in Clients |-> 1]
    /\ justAnswered = [c \in Clients |-> FALSE]
    /\ isHost = [c \in Clients |-> c = "h"]
    /\ puts = [c \in Clients |-> <<>>]
    /\ compared = NotCompared

PollMounted == \E c \in Clients, v \in 1..Len(history) : PollTick(c, v)
\* the runs stop answering once the room has been written twice
TeardownOpen == Len(history) < 3

DetectMounted ==
    TeardownOpen /\ \E c \in Clients : DetectionScheduled(c) /\ detectHandSign(c)
LeaveView == \E c \in Clients : Leave(c)
TimerFired == \E c \in Clients : clearSolvedMessage(c)
RoomUpdatedTeardown == RoomUpdated

NextTeardown ==
    PollMounted \/ DetectMounted \/ LeaveView \/ TimerFired \/ RoomUpdatedTeardown

SpecTeardown == InitTeardown /\ [][NextTeardown]_vars

-----------------------------------------------------------------------------
(* The room poll with its requests in flight *)

\* the responses of GET /api/room/[roomCode] on their way to each page, each
\* one the version of the room that the handler read
Polling(gets) == [state |-> "polling", gets |-> gets]

\* the handler, were it to read a copy of the document one write behind
ServedVersionBehind == IF Len(history) > 1 THEN Len(history) - 1 ELSE 1
\* the handler reads the room document when it serves the request
ServedVersion == Len(history)

\* a tick of the poll: fetch(`/api/room/${roomCode}`) is sent and served
GetRoomRequest(c) ==
    /\ PollScheduled(c)
    /\ compared' = Polling([compared.gets EXCEPT ![c] = @ \cup {ServedVersion}])
    /\ UNCHANGED <<storeVars, pageVars, viewVars>>

\* a response reaches the page, in any order: the rest of fetchRoom
GetRoomResponse(c, v) ==
    /\ v \in compared.gets[c]
    /\ fetchRoomResponse(c, v)
    /\ compared' = Polling([compared.gets EXCEPT ![c] = @ \ {v}])

InitConverge ==
    /\ \E goalScore \in 1..MaxGoal, problem \in initialProblem :
          /\ rooms = << [id |-> 1, data |-> JoinedRoom(goalScore, problem)] >>
          /\ history = << [data |-> JoinedRoom(goalScore, problem),
                           cause |-> [op |-> "join", by |-> "g", base |-> 0, body |-> <<>>],
                           inst |-> 1] >>
    /\ creating = [u \in Users |-> NoRequest]
    /\ joining = [u \in Users |-> NoRequest]
    /\ last = NoResponse
    /\ PagesClosed
    /\ compared = Polling([c \in Clients |-> {}])

\* the runs stop sending once the room has been written twice
ConvergeOpen == Len(history) < 3

\* the versions of the room there can be
Versions == 1..(MaxWrites + 1)

PollSent == \E c \in Clients : GetRoomRequest(c)
PollAnswered == \E c \in Clients, v \in Versions : GetRoomResponse(c, v)
StartConverge == ConvergeOpen /\ \E c \in Clients : startGame(c)
SkipConverge == ConvergeOpen /\ \E c \in Clients : handleSkip(c)
RoomUpdatedConverge == RoomUpdated

NextConverge ==
    PollSent \/ PollAnswered \/ StartConverge \/ SkipConverge \/ RoomUpdatedConverge

\* the interval fires every two seconds while the page is mounted, and every
\* response arrives
PollFairness ==
    \A c \in Clients :
        /\ WF_vars(GetRoomRequest(c))
        /\ \A v \in Versions : WF_vars(GetRoomResponse(c, v))

SpecConverge == InitConverge /\ [][NextConverge]_vars /\ PollFairness

-----------------------------------------------------------------------------
(* The problems that reach the store: every problem of the generators *)

InitProblem == rooms = << >> /\ LobbyInit

\* POST /api/room stores the room with its initial problem
CreateWithProblem ==
    /\ rooms = << >>
    /\ \E problem \in AllProblems(InitialNumbers) :
          rooms' = << [id |-> 1,
                       data |-> NewRoomData(RoomKey, "h", UserName("h"), GoalScoreMin, problem)] >>
    /\ UNCHANGED <<creating, joining, last, pageVars, compared, viewVars>>

\* the write of startGame served, with the problem of generateNewProblem
StartWithProblem ==
    /\ rooms # << >> /\ ~rooms[1].data.is_started
    /\ \E newProblem \in AllProblems(NUMBERS) :
          rooms' = [rooms EXCEPT ![1].data =
                       UpdateDoc(@, [is_started |-> TRUE, current_problem |-> newProblem])]
    /\ UNCHANGED <<creating, joining, last, pageVars, compared, viewVars>>

\* the write of handleSkip by the host served, with the problem of
\* generateNewProblem
SkipWithProblem ==
    /\ rooms # << >> /\ rooms[1].data.is_started /\ ~rooms[1].data.host_skipped
    /\ \E newProblem \in AllProblems(NUMBERS) :
          rooms' = [rooms EXCEPT ![1].data =
                       UpdateDoc(@, [host_skipped |-> TRUE, current_problem |-> newProblem])]
    /\ UNCHANGED <<creating, joining, last, pageVars, compared, viewVars>>

NextProblem == CreateWithProblem \/ StartWithProblem \/ SkipWithProblem

SpecProblem == InitProblem /\ [][NextProblem]_vars

-----------------------------------------------------------------------------
(* Reading the history of the room *)

\* the writes served by PUT /api/room/[roomCode], as positions in `history`
Writes == 2..Len(history)
Cause(i) == history[i].cause
Before(i) == history[i - 1].data
After(i) == history[i].data

\* a write that carries a score: the write of a correct answer
ScoringWrite(i) == Cause(i).op = "put" /\ IsScoring(Cause(i).body)
\* the challenge instance the client's copy showed when it computed the write
AgainstInst(i) == history[Cause(i).base].inst
\* the challenge instance that was current when the write was served
CurrentInst(i) == history[i - 1].inst
\* i was served first and the client of j had not seen it when it submitted
Concurrent(i, j) == i < j /\ Cause(j).base < i
\* the write changed no field of the room
Rejected(i) == After(i) = Before(i)
ScoreSum(data) == data.host_score + data.guest_score
GivenUp(data) == data.host_given_up \/ data.guest_given_up
Max(a, b) == IF a >= b THEN a ELSE b

-----------------------------------------------------------------------------
(* Scoring and termination *)

\* C1: of two concurrent correct submissions by host and guest against the same
\* challenge instance, the one served first adds exactly 1 to a score and the
\* other changes nothing
AtMostOnceScoring ==
    \A i, j \in Writes :
        (/\ ScoringWrite(i) /\ ScoringWrite(j)
         /\ Cause(i).by # Cause(j).by
         /\ Concurrent(i, j)
         /\ AgainstInst(i) = CurrentInst(i)
         /\ AgainstInst(j) = AgainstInst(i))
        => /\ ScoreSum(After(i)) = ScoreSum(Before(i)) + 1
           /\ Rejected(j)

\* C2: no write to the room lowers host_score or guest_score
MonotonicScores ==
    \A i \in Writes :
        /\ After(i).host_score >= Before(i).host_score
        /\ After(i).guest_score >= Before(i).guest_score

\* C3: once the room is finished, no write makes it unfinished
TerminalStability ==
    \A i \in Writes : Before(i).is_finished => After(i).is_finished

\* C4: the stored room is finished exactly when a score has reached the goal
\* or a player has given up
TerminationCondition ==
    Stored.is_finished <=>
        (Max(Stored.host_score, Stored.guest_score) >= Stored.goal_score \/ GivenUp(Stored))

\* C5: a correct answer computed against a challenge instance that is no longer
\* the current one changes no field of the room
StaleInstanceRejected ==
    \A i \in Writes :
        (ScoringWrite(i) /\ AgainstInst(i) # CurrentInst(i)) => Rejected(i)

\* the host's give-up served while the guest has 1 point and the goal is higher
HostGivesUpAtOne(i) ==
    /\ Cause(i).op = "put" /\ Cause(i).by = "h"
    /\ "host_given_up" \in DOMAIN Cause(i).body
    /\ Before(i).guest_score = 1 /\ 1 < Before(i).goal_score

\* C6: when the host gives up while the guest has 1 point, below the goal, the
\* room is finished right after that write, and a correct answer of the guest
\* for the problem shown before it changes neither the scores, nor is_finished,
\* nor current_problem
ScenarioB ==
    \A i \in Writes :
        HostGivesUpAtOne(i)
        => /\ After(i).is_finished
           /\ \A j \in Writes :
                 (j > i /\ ScoringWrite(j) /\ Cause(j).by = "g" /\ Cause(j).base < i)
                 => /\ After(j).host_score = Before(j).host_score
                    /\ After(j).guest_score = Before(j).guest_score
                    /\ After(j).is_finished = Before(j).is_finished
                    /\ After(j).current_problem = Before(j).current_problem

-----------------------------------------------------------------------------
(* Joining, comparing answers, the scenarios *)

JoinAnswered(u) == joining[u] # NoRequest /\ joining'[u] = NoRequest
JoinReadDone(u) == joining[u] = NoRequest /\ joining'[u] # NoRequest

\* C7: a join request that reads a room whose stored guest_id is not empty has
\* seen that guest_id, is answered with an error, and neither its read nor its
\* answer changes any field of any stored room
JoinExclusivity ==
    [][\A u \in Users :
        /\ JoinReadDone(u)
           => /\ rooms' = rooms
              /\ joining'[u].roomData.guest_id = rooms[DocWithId(joining'[u].id)].data.guest_id
        /\ (JoinAnswered(u) /\ joining[u].roomData.guest_id # "")
           => /\ last'.op = "join" /\ last'.by = u /\ last'.status >= 400
              /\ rooms' = rooms]_vars

\* "x" was refused because the room is full, and "g" is still the guest
FullRoomRefused ==
    /\ last.op = "join" /\ last.by = "x" /\ last.error = "Room is already full"
    /\ rooms[1].data.guest_id = "g"

\* equal up to letter case and surrounding blanks
SameText(a, b) == trim(toUpperCase(a)) = trim(toUpperCase(b))

\* C8: a string is accepted for a string answer exactly when the two are equal
\* up to letter case and surrounding blanks, and a number for a numeric answer
\* exactly when it is the same integer
AnswerNormalization ==
    (compared.state = "done" /\ compared.detected.ty = compared.answer.ty)
    => (compared.accepted <=>
          IF compared.answer.ty = "string"
          THEN SameText(compared.detected.s, compared.answer.s)
          ELSE compared.detected.n = compared.answer.n)

\* a guest answer computed for the problem that is the current one when served
GuestAnswersInTurn(i) ==
    ScoringWrite(i) /\ Cause(i).by = "g" /\ AgainstInst(i) = CurrentInst(i)

\* the room of Scenario A: goal 3, started by the host, then three answers of
\* the guest, each for the current problem, and no other write
ScenarioAPlayed ==
    /\ Len(history) >= 5
    /\ history[1].data.goal_score = 3
    /\ Cause(2).op = "put" /\ Cause(2).by = "h" /\ "is_started" \in DOMAIN Cause(2).body
    /\ \A i \in 3..5 : GuestAnswersInTurn(i)

\* C9: after Scenario A the stored room is finished with guest_score 3 and
\* host_score 0, and the Game Finished card names the guest as the winner
ScenarioA ==
    ScenarioAPlayed
    => /\ After(5).is_finished
       /\ After(5).guest_score = 3
       /\ After(5).host_score = 0
       /\ WinnerText(GetRoom(After(5))) = << After(5).guest_name, " Wins!" >>

\* the step in which POST /api/room answers 201 to u
CreateSucceeds(u) ==
    creating[u] # NoRequest /\ creating'[u] = NoRequest /\ last'.status = 201

\* C10: the room that GET /api/room/[roomCode] returns right after a create
\* request with a numeric goal_score succeeded has an 8-character alphanumeric
\* code that no other stored room has, the requested goal_score, is not
\* started, not finished, has both scores 0, no guest, and a problem of one of
\* the three types
ScenarioC ==
    [][\A u \in Users :
        (CreateSucceeds(u) /\ creating[u].body.goal_score.ty = "number")
        => LET code == creating[u].roomCode
               got == GetRoom(rooms'[FirstIn(rooms', code)].data)
           IN  /\ ValidRoomCode(got.room_code)
               /\ Cardinality(QueryIn(rooms', got.room_code)) = 1
               /\ got.goal_score = creating[u].body.goal_score.n
               /\ ~got.is_started /\ ~got.is_finished
               /\ got.host_score = 0 /\ got.guest_score = 0
               /\ got.guest_id = ""
               /\ got.current_problem # NoProblem
               /\ got.current_problem.type \in ProblemTypes]_vars

-----------------------------------------------------------------------------
(* The lifecycle of the room *)

\* C11: once the stored room is finished, no later write changes any field of it
ImmutableAfterFinish ==
    \A i \in Writes : Before(i).is_finished => After(i) = Before(i)

\* C12: every stored room has a current_problem exactly when it is started and
\* not finished
ProblemPresence ==
    \A i \in 1..Len(rooms) :
        (rooms[i].data.current_problem # NoProblem)
        <=> (rooms[i].data.is_started /\ ~rooms[i].data.is_finished)

\* the four states as getRoomStatus tells them apart, each by its own fields
NoOpponent(data) == data.guest_id = "" /\ ~data.is_started
Ready(data) == data.guest_id # "" /\ ~data.is_started
Playing(data) == data.is_started /\ ~data.is_finished
Over(data) == data.is_finished
StatesOf(data) ==
    {st \in {"Waiting", "ReadyToStart", "Active", "Finished"} :
        \/ st = "Waiting" /\ NoOpponent(data)
        \/ st = "ReadyToStart" /\ Ready(data)
        \/ st = "Active" /\ Playing(data)
        \/ st = "Finished" /\ Over(data)}

\* C13: every stored room is in exactly one of Waiting, ReadyToStart, Active
\* and Finished; a finished room is started and a started room has a guest
LifecycleConsistency ==
    \A i \in 1..Len(rooms) :
        LET data == rooms[i].data IN
        /\ Cardinality(StatesOf(data)) = 1
        /\ data.is_finished => data.is_started
        /\ data.is_started => data.guest_id # ""

\* the room of "h" was waiting, was joined, was started and is finished
LifeCompleted ==
    /\ Len(history) = 4
    /\ StatesOf(history[1].data) = {"Waiting"}
    /\ StatesOf(history[2].data) = {"ReadyToStart"}
    /\ StatesOf(history[3].data) = {"Active"}
    /\ StatesOf(Stored) = {"Finished"}
    /\ rooms[1].data = Stored

\* C14: no two stored rooms have the same room_code
UniqueRoomCodes ==
    \A i, j \in 1..Len(rooms) :
        i # j => rooms[i].data.room_code # rooms[j].data.room_code

\* the step in which the handler finds the request's code well-formed and free
CreateChecked(u) == creating[u] = NoRequest /\ creating'[u] # NoRequest
\* the step in which POST /api/room refuses a request
CreateRefused == last' # last /\ last'.op = "create" /\ last'.status >= 400

\* C15: a create request goes on past the code checks only with a code of 8
\* alphanumeric characters that no stored room has, a code that exists is
\* answered 409, a request with a numeric goal_score succeeds only when the
\* goal_score is in 1..20, and a refused request adds no room
CreateValidation ==
    [][/\ \A u \in Users :
            /\ CreateChecked(u)
               => /\ ValidRoomCode(toUpperCase(creating'[u].body.room_code.s))
                  /\ ~roomCodeExists(creating'[u].roomCode)
            /\ (CreateSucceeds(u) /\ creating[u].body.goal_score.ty = "number")
               => creating[u].body.goal_score.n \in GoalScoreMin..GoalScoreMax
       /\ CreateRefused
            => /\ rooms' = rooms
               /\ last'.status = 409 => roomCodeExists(last'.code)
               /\ last'.status # 409 => last'.status = 400]_vars

\* the lifecycle states of a room, by its fields
Waiting(data) == data.guest_id = "" /\ ~data.is_started /\ ~data.is_finished
ReadyToStart(data) == data.guest_id # "" /\ ~data.is_started /\ ~data.is_finished
Active(data) == data.is_started /\ ~data.is_finished
Finished(data) == data.is_finished

StartWrite(i) == Cause(i).op = "put" /\ "is_started" \in DOMAIN Cause(i).body
GiveUpWrite(i) ==
    /\ Cause(i).op = "put"
    /\ {"host_given_up", "guest_given_up"} \cap DOMAIN Cause(i).body # {}
SkipWrite(i) ==
    /\ Cause(i).op = "put"
    /\ {"host_skipped", "guest_skipped"} \cap DOMAIN Cause(i).body # {}
ByHost(i) == Cause(i).by = Before(i).host_id

\* C17: is_started goes from false to true only by a start of the host served
\* while the stored room is ReadyToStart; such a start stores is_started = true
\* and the problem it generated; a start served in any other state changes
\* nothing
StartGuard ==
    \A i \in Writes :
        /\ (~Before(i).is_started /\ After(i).is_started)
              => StartWrite(i) /\ ByHost(i) /\ ReadyToStart(Before(i))
        /\ StartWrite(i)
              => IF ByHost(i) /\ ReadyToStart(Before(i))
                 THEN /\ After(i).is_started
                      /\ After(i).current_problem = Cause(i).body.current_problem
                 ELSE Rejected(i)

\* C18: a give-up served while the stored room is Active sets the given-up
\* flag of its player and is_finished and leaves both scores as they were; a
\* give-up served in any other state changes nothing
GiveUpGuard ==
    \A i \in Writes :
        GiveUpWrite(i)
        => IF Active(Before(i))
           THEN /\ After(i).is_finished
                /\ IF ByHost(i) THEN After(i).host_given_up ELSE After(i).guest_given_up
                /\ After(i).host_score = Before(i).host_score
                /\ After(i).guest_score = Before(i).guest_score
           ELSE Rejected(i)

\* C19: a skip served while the stored room is Active stores the problem it
\* generated and the skip flag of its player and leaves the scores, is_started,
\* is_finished and the given-up flags as they were; a skip served in any other
\* state changes nothing
SkipFrame ==
    \A i \in Writes :
        SkipWrite(i)
        => IF Active(Before(i))
           THEN /\ After(i).current_problem = Cause(i).body.current_problem
                /\ IF ByHost(i) THEN After(i).host_skipped ELSE After(i).guest_skipped
                /\ After(i).host_score = Before(i).host_score
                /\ After(i).guest_score = Before(i).guest_score
                /\ After(i).is_started = Before(i).is_started
                /\ After(i).is_finished = Before(i).is_finished
                /\ After(i).host_given_up = Before(i).host_given_up
                /\ After(i).guest_given_up = Before(i).guest_given_up
           ELSE Rejected(i)


-----------------------------------------------------------------------------
(* The result of the game *)

HostWins(r) == << r.host_name, " Wins!" >>
GuestWins(r) == << r.guest_name, " Wins!" >>

\* C20: on every page that shows a finished room, the Game Finished card names
\* the other player when exactly one player gave up, whatever the scores;
\* otherwise it names the player with the strictly higher score, and with
\* equal scores and no give-up it says tie
WinnerDetermination ==
    \A c \in Clients :
        (room[c] # Null /\ Local(c).is_finished)
        => LET r == Local(c) IN
           IF r.host_given_up /\ ~r.guest_given_up THEN WinnerText(r) = GuestWins(r)
           ELSE IF r.guest_given_up /\ ~r.host_given_up THEN WinnerText(r) = HostWins(r)
           ELSE IF r.host_score > r.guest_score THEN WinnerText(r) = HostWins(r)
           ELSE IF r.guest_score > r.host_score THEN WinnerText(r) = GuestWins(r)
           ELSE GivenUp(r) \/ WinnerText(r) = << "It's a Tie!" >>


-----------------------------------------------------------------------------
(* The problem on display *)

PutsSent == Len(puts["h"]) + Len(puts["g"])
\* the step served a write of startGame, of a correct answer or of handleSkip
\* that carries a problem, and that problem is the stored one afterwards
GeneratorWriteServed ==
    /\ Len(history') = Len(history) + 1
    /\ LET cause == history'[Len(history')].cause IN
         /\ cause.op = "put"
         /\ \/ "is_started" \in DOMAIN cause.body
            \/ IsScoring(cause.body)
            \/ {"host_skipped", "guest_skipped"} \cap DOMAIN cause.body # {}
         /\ WritesProblem(cause.body)
         /\ history'[Len(history')].data.current_problem = cause.body.current_problem

\* C21: a step changes the stored current_problem only by serving the write of
\* a start, of a correct answer or of a skip; one step of a page sends at most
\* one write and one step of the store serves at most one
ProblemChangesByGenerator ==
    [][/\ (\E d \in 1..Len(rooms) :
              rooms'[d].data.current_problem # rooms[d].data.current_problem)
          => GeneratorWriteServed
       /\ Len(rooms') = Len(rooms)
       /\ Len(history') <= Len(history) + 1
       /\ PutsSent' <= PutsSent + 1]_vars

\* the problem was replaced, and a give-up and a message clear were served as well
ProblemReplaced ==
    /\ \E i \in Writes : After(i).current_problem # Before(i).current_problem
    /\ \E i \in Writes : GiveUpWrite(i)
    /\ \E i \in Writes : Cause(i).op = "put" /\ DOMAIN Cause(i).body = {}


IsLetter(s) == Len(s) = 1 /\ IndexOf(s[1], ALPHABET) # 0
IsVocabularyWord(s) == \E k \in 1..Len(BASIC_WORDS) : BASIC_WORDS[k] = s
\* a problem of the three kinds, with an answer of its kind's fixed set and a
\* question that names this answer
WellFormed(problem) ==
    CASE problem.type = "alphabet" ->
            /\ problem.answer.ty = "string" /\ IsLetter(problem.answer.s)
            /\ problem.question = [text |-> "Sign the letter: ", arg |-> problem.answer.s]
      [] problem.type = "number" ->
            /\ problem.answer.ty = "number" /\ problem.answer.n \in 0..9
            /\ problem.question = [text |-> "Sign the number: ",
                                   arg |-> NumberToString(problem.answer.n)]
      [] problem.type = "word" ->
            /\ problem.answer.ty = "string" /\ IsVocabularyWord(problem.answer.s)
            /\ problem.question = [text |-> "Sign the word: ", arg |-> problem.answer.s]
      [] OTHER -> FALSE

\* C22: every current_problem stored at create, start or skip is of type
\* alphabet, number or word, its answer is a letter A-Z, an integer 0..9 or a
\* word of the vocabulary, and its question names that answer
WellFormedProblems ==
    \A d \in 1..Len(rooms) : WellFormed(rooms[d].data.current_problem)


-----------------------------------------------------------------------------
(* Detection and the answer lock *)

\* C23: while the response of the classifier has a confidence below the
\* threshold, the page sends no write, no write is served and no answer lock
\* is set, whatever the type of the problem
ConfidenceGate ==
    (compared.state = "response" /\ compared.data.confidence < threshold)
    => /\ PutsInFlight = 0
       /\ Len(history) = 1
       /\ \A c \in Clients : ~justAnswered[c]


ScoringWritesBy(c) ==
    Cardinality({i \in Writes : ScoringWrite(i) /\ Cause(i).by = c})

\* C24: every served write of a correct answer raises host_score + guest_score
\* by exactly 1, so host_score is the number of the host's served scoring
\* writes and guest_score the number of the guest's
NoLostScoringUpdate ==
    /\ \A i \in Writes :
          ScoringWrite(i) => ScoreSum(After(i)) = ScoreSum(Before(i)) + 1
    /\ Stored.host_score = ScoringWritesBy(Stored.host_id)
    /\ Stored.guest_score = ScoringWritesBy(Stored.guest_id)


OwnScore(data, c) == IF c = data.host_id THEN data.host_score ELSE data.guest_score
OtherScore(data, c) == IF c = data.host_id THEN data.guest_score ELSE data.host_score

\* C25: the served write of a correct answer against the current challenge
\* instance leaves the score of its player exactly 1 higher and the other score
\* as it was, last_solved_by is its player, and either the new score is below
\* goal_score and current_problem is the newly generated problem, or it reaches
\* goal_score and the room is finished with no current_problem
ScoringAnswerEffect ==
    \A i \in Writes :
        (ScoringWrite(i) /\ AgainstInst(i) = CurrentInst(i))
        => /\ OwnScore(After(i), Cause(i).by) = OwnScore(Before(i), Cause(i).by) + 1
           /\ OtherScore(After(i), Cause(i).by) = OtherScore(Before(i), Cause(i).by)
           /\ After(i).last_solved_by = Cause(i).by
           /\ IF OwnScore(After(i), Cause(i).by) >= After(i).goal_score
              THEN After(i).is_finished /\ After(i).current_problem = NoProblem
              ELSE /\ WritesProblem(Cause(i).body)
                   /\ After(i).current_problem = Cause(i).body.current_problem


\* the room the submitter read when it computed write i
ReadBy(i) == history[Cause(i).base].data

\* C26: the write of a correct answer is applied only if the stored room is
\* still the room the submitter read, and is otherwise refused; one answer
\* makes at most two write attempts
ConditionalWrite ==
    /\ \A i \in Writes : ScoringWrite(i) => (Before(i) = ReadBy(i) \/ Rejected(i))
    /\ \A c \in Clients : Len(puts[c]) <= 2


-----------------------------------------------------------------------------
(* Joins in flight together *)

\* C27: a join request is answered with success only while the stored room has
\* no guest yet, so of the requests that read the same Waiting room at most
\* one succeeds and the stored guest_id is the id of the one that did
ConcurrentJoins ==
    [][\A u \in Users :
        (JoinAnswered(u) /\ last'.status = 200)
        => LET d == DocWithId(joining[u].id) IN
           /\ rooms[d].data.guest_id = ""
           /\ rooms'[d].data.guest_id = joining[u].guest_id]_vars


-----------------------------------------------------------------------------
(* Wrong answers *)

\* the problem of the started room and what the page submits for the response
FirstProblem == history[1].data.current_problem
Submitted == DetectedValue(FirstProblem, compared.data)
WrongAnswer ==
    /\ compared.state = "response"
    /\ Submitted # undefined
    /\ ~isCorrect(Submitted, FirstProblem.answer)

\* C28: while the value the page submits does not match the answer of the
\* problem, the page sends no write and the stored room stays as it was
IncorrectAnswerWritesNothing ==
    WrongAnswer
    => /\ PutsInFlight = 0
       /\ Len(history) = 1
       /\ rooms[1].data = history[1].data

\* the page shows the problem and the classifier reports a wrong value for it
WrongAnswerSubmitted ==
    /\ WrongAnswer
    /\ room[compared.by] # Null
    /\ Local(compared.by).current_problem = FirstProblem
    /\ ENABLED detectHandSignOn(compared.by, compared.data)


-----------------------------------------------------------------------------
(* The answer lock *)

\* C29: the answer lock of a page is reset only by a poll that brings a
\* current_problem different from the one the page showed before it
LockResetOnProblemChange ==
    [][\A c \in Clients :
        (room[c] # Null /\ justAnswered[c] /\ ~justAnswered'[c])
        => GetRoom(history'[room'[c]].data).current_problem # Local(c).current_problem]_vars


\* C30: between two changes of the problem it observes a page submits at most
\* once: no two served answers of one player were computed from the same
\* challenge instance
OneShotLock ==
    \A i, j \in Writes :
        (/\ i < j
         /\ ScoringWrite(i) /\ ScoringWrite(j)
         /\ Cause(i).by = Cause(j).by)
        => AgainstInst(i) # AgainstInst(j)


-----------------------------------------------------------------------------
(* Scores and players *)

\* C37: in every stored room both scores are between 0 and goal_score and at
\* most one of them equals goal_score
ScoreBound ==
    \A d \in 1..Len(rooms) :
        LET data == rooms[d].data IN
        /\ 0 <= data.host_score /\ data.host_score <= data.goal_score
        /\ 0 <= data.guest_score /\ data.guest_score <= data.goal_score
        /\ ~(data.host_score = data.goal_score /\ data.guest_score = data.goal_score)


HostFields == {"host_score", "host_skipped", "host_given_up"}
GuestFields == {"guest_score", "guest_skipped", "guest_given_up"}

\* C38: every served write of the room view comes from the host or the guest
\* of the room; it carries host fields exactly when its user is the host and
\* guest fields only when its user is the guest
OnlyParticipantsAct ==
    \A i \in Writes :
        Cause(i).op = "put"
        => LET by == Cause(i).by
               fields == DOMAIN Cause(i).body
           IN  /\ by \in {Before(i).host_id, Before(i).guest_id} \/ Rejected(i)
               /\ (fields \cap (HostFields \cup GuestFields) # {})
                     => /\ (fields \cap HostFields # {}) <=> by = Before(i).host_id
                        /\ (fields \cap GuestFields # {}) => by = Before(i).guest_id


\* the write of the timer that checkAnswer sets: updateRoom({ last_solved_by: undefined })
ClearWrite(i) == Cause(i).op = "put" /\ DOMAIN Cause(i).body = {}

\* C36: once a skip is served the stored room has no last_solved_by, and once
\* the delayed clear of a scoring answer is served it has none either
LastSolvedByTransient ==
    \A i \in Writes :
        (SkipWrite(i) \/ ClearWrite(i)) => After(i).last_solved_by = UndefinedUser


-----------------------------------------------------------------------------
(* Detections of one page that overlap *)

\* C31: of two served answers of one player that were computed from the same
\* copy of the room, the second leaves the player's score at most 1 above the
\* score before the first, and only one of them replaces current_problem
OverlappingDetections ==
    \A i, j \in Writes :
        (/\ i < j
         /\ ScoringWrite(i) /\ ScoringWrite(j)
         /\ Cause(i).by = Cause(j).by
         /\ Cause(i).base = Cause(j).base)
        => /\ OwnScore(After(j), Cause(j).by) <= OwnScore(Before(i), Cause(i).by) + 1
           /\ ~(WritesProblem(Cause(i).body) /\ WritesProblem(Cause(j).body))


-----------------------------------------------------------------------------
(* Polling *)

\* C33: after a failed fetch the poll of the page still runs: its next tick
\* can fetch the room, and the fetch puts the stored room in the place of the
\* page's copy
PollRobustness ==
    \A c \in Clients :
        (mounted[c] /\ error[c] # NoError)
        => ENABLED (PollTick(c, Len(history)) /\ room'[c] = Len(history))

\* a poll of the guest failed, the room changed, and the guest's page holds
\* the stored room
FetchedAfterFailure ==
    /\ error["g"] # NoError
    /\ Len(history) > 1
    /\ room["g"] = Len(history)

\* C34: a fetch that brings the page another version of the room leaves no
\* error set
RecoveryAfterPoll ==
    [][\A c \in Clients : room'[c] # room[c] => error'[c] = NoError]_vars


-----------------------------------------------------------------------------
(* Teardown *)

\* C32: a page that has left the room view sends no further write to the
\* store
NoWriteAfterLeave ==
    [][\A c \in Clients : ~mounted[c] => Len(puts'[c]) <= Len(puts[c])]_vars


-----------------------------------------------------------------------------
(* Convergence *)

\* C35: with both pages polling, once the stored room has stopped changing
\* (the writes of a run are bounded, so it does), the copy of each page
\* becomes the stored room and stays it, whatever the order in which the
\* responses of its polls arrive
ConvergenceByPolling == \A c \in Clients : <>[](room[c] = Len(history))

\* the room was written twice and both pages hold the stored room with no
\* response on its way
Converged ==
    /\ Len(history) >= 3
    /\ compared.state = "polling"
    /\ \A c \in Clients : room[c] = Len(history) /\ compared.gets[c] = {}

====
